---- MODULE Spec2Model ----
(***************************************************************************)
(* Model of the code review bot (class CodeReviewBot): file filtering and   *)
(* pattern matching, the run() pipeline,                                   *)
(* batch dispatch of files to the analysis service, interpretation of the  *)
(* service's response, severity aggregation, issue publication and         *)
(* the blocking decision.                                                  *)
(***************************************************************************)
EXTENDS Integers, Sequences, FiniteSets, TLC

VARIABLES
    config,         \* this.config: [branches, concurrency_limit], and global when filtering
    branchName,     \* this.branchName (BRANCH_NAME)
    pc,             \* position of run(): start, dispatch, handle, publishing, gate, exited
    files,          \* the list handed to reviewCode
    i,              \* loop index of reviewCode (0-based offset of the current batch)
    task,           \* per file: state of its processFile promise
    issues,         \* the verdict list reviewCode accumulates
    metrics,        \* this.metrics: filesProcessed, openaiCalls
    reviewResults,  \* argument of handleReviewResults
    maxSeverity,    \* overall severity computed by handleReviewResults
    report,         \* issue publication: none, skipped, inflight, created, failed
    exitCode,       \* process exit status, -1 while the process runs
    responseContent,\* raw analysis-service output under interpretation
    reviewResult,   \* what analyzeWithOpenAI returned for responseContent
    batches,        \* the batches reviewCode has started, each the indices of its files
    changedFiles,   \* what getChangedFiles returned, the input of filterFiles
    filename,       \* first argument of a matchesPattern call
    pattern,        \* second argument of a matchesPattern call
    matched         \* what that matchesPattern call returned

vars == <<config, branchName, pc, files, i, task, issues, metrics, reviewResults,
          maxSeverity, report, exitCode, responseContent, reviewResult,
          batches, changedFiles, filename, pattern, matched>>

\* the state of file filtering and pattern matching
matchVars == <<changedFiles, filename, pattern, matched>>

\* ---------------------------------------------------------------- bounds
MaxFiles == 3          \* files in a run
MaxIssues == 2         \* issues over a verdict list handed to handleReviewResults
MaxPairs == 2          \* quoted field pairs in the prose of a raw response
MaxJsonIssues == 2     \* issues in the JSON text of a raw response
MaxBatchFiles == 7     \* files in a dispatch whose batching is examined
MaxLimit == 4          \* configured concurrency limit in such a dispatch
MaxDepth == 2          \* directories above the file of a path given to matchesPattern
MaxChanged == 2        \* changed files given to filterFiles
MaxPatterns == 2       \* exclude patterns of a configuration given to filterFiles

\* ---------------------------------------------------------------- JS values
Undefined == "undefined"

Severities == {"low", "medium", "high"}

\* a severity string the service may send that is no key of severityLevels
SeverityStrings == Severities \cup {"High"}

SeverityLevelsIgnoringCase(s) ==
    CASE s = "low" -> 1
      [] s = "medium" -> 2
      [] s \in {"high", "High"} -> 3
      [] OTHER -> 0

\* const severityLevels = { low: 1, medium: 2, high: 3 }; 0 stands for undefined
severityLevels(s) ==
    CASE s = "low" -> 1
      [] s = "medium" -> 2
      [] s = "high" -> 3
      [] OTHER -> 0

\* a < b and a > b on numbers-or-undefined: false when either side is undefined
JsLess(a, b) == a # 0 /\ b # 0 /\ a < b
JsGreater(a, b) == a # 0 /\ b # 0 /\ a > b

\* String.prototype.toLowerCase on the branch names of the model
toLowerCase(s) ==
    CASE s = "UAT" -> "uat"
      [] s = "Main" -> "main"
      [] OTHER -> s

\* ---------------------------------------------------------------- policy
CriteriaValues ==
    {Undefined, "high_only", "medium_and_high", "all_severities", "custom", "strict"}

\* custom_blocking_rules: absent, or a table over some of the severities
RuleTables ==
    {[defined |-> FALSE, entries |-> [s \in {} |-> TRUE]]} \cup
    {[defined |-> TRUE, entries |-> e] :
        e \in UNION {[D -> BOOLEAN] : D \in SUBSET Severities}}

Policies ==
    [blocking : BOOLEAN,
     severity_threshold : Severities,
     blocking_criteria : CriteriaValues,
     custom_blocking_rules : RuleTables]

\* this.config.branches[this.branchName.toLowerCase()]
BranchConfig == config.branches[toLowerCase(branchName)]

ShouldBlockCommitWithoutDefault(sev, branchConfig) ==
    CASE branchConfig.blocking_criteria = "high_only" -> sev = "high"
      [] branchConfig.blocking_criteria = "medium_and_high" ->
            sev = "high" \/ sev = "medium"
      [] branchConfig.blocking_criteria = "all_severities" -> TRUE
      [] branchConfig.blocking_criteria = "custom" ->
            /\ sev \in DOMAIN branchConfig.custom_blocking_rules.entries
            /\ branchConfig.custom_blocking_rules.entries[sev] = TRUE
      [] OTHER -> FALSE

ShouldBlockCommitAllSeveritiesAboveLow(sev, branchConfig) ==
    LET blockingCriteria ==
            IF branchConfig.blocking_criteria = Undefined
            THEN "high_only" ELSE branchConfig.blocking_criteria
    IN  CASE blockingCriteria = "high_only" -> sev = "high"
          [] blockingCriteria = "medium_and_high" -> sev = "high" \/ sev = "medium"
          [] blockingCriteria = "all_severities" -> sev # "low"
          [] blockingCriteria = "custom" ->
                /\ sev \in DOMAIN branchConfig.custom_blocking_rules.entries
                /\ branchConfig.custom_blocking_rules.entries[sev] = TRUE
          [] OTHER -> sev = "high"

ShouldBlockCommitCustomTruthy(sev, branchConfig) ==
    LET blockingCriteria ==
            IF branchConfig.blocking_criteria = Undefined
            THEN "high_only" ELSE branchConfig.blocking_criteria
    IN  CASE blockingCriteria = "high_only" -> sev = "high"
          [] blockingCriteria = "medium_and_high" -> sev = "high" \/ sev = "medium"
          [] blockingCriteria = "all_severities" -> TRUE
          [] blockingCriteria = "custom" ->
                sev \in DOMAIN branchConfig.custom_blocking_rules.entries
          [] OTHER -> sev = "high"

ShouldBlockCommitMediumIsHighOnly(sev, branchConfig) ==
    LET blockingCriteria ==
            IF branchConfig.blocking_criteria = Undefined
            THEN "high_only" ELSE branchConfig.blocking_criteria
    IN  CASE blockingCriteria = "high_only" -> sev = "high"
          [] blockingCriteria = "medium_and_high" -> sev = "high"
          [] blockingCriteria = "all_severities" -> TRUE
          [] blockingCriteria = "custom" ->
                /\ sev \in DOMAIN branchConfig.custom_blocking_rules.entries
                /\ branchConfig.custom_blocking_rules.entries[sev] = TRUE
          [] OTHER -> sev = "high"

\* shouldBlockCommit(maxSeverity, branchConfig)
shouldBlockCommit(sev, branchConfig) ==
    LET blockingCriteria ==
            IF branchConfig.blocking_criteria = Undefined
            THEN "high_only" ELSE branchConfig.blocking_criteria
        customRules == branchConfig.custom_blocking_rules.entries
    IN  CASE blockingCriteria = "high_only" -> sev = "high"
          [] blockingCriteria = "medium_and_high" -> sev = "high" \/ sev = "medium"
          [] blockingCriteria = "all_severities" -> TRUE
          [] blockingCriteria = "custom" ->
                sev \in DOMAIN customRules /\ customRules[sev] = TRUE
          [] OTHER -> sev = "high"

BelowThresholdByName(severity, severityThreshold) ==
    \* compares the strings themselves: "high" < "low" < "medium"
    LET rank(s) == CASE s = "high" -> 1 [] s = "low" -> 2 [] s = "medium" -> 3
                     [] OTHER -> 0
    IN  JsLess(rank(severity), rank(severityThreshold))

\* createGitHubIssue: severityLevels[severity] < severityLevels[severityThreshold]
BelowThreshold(severity, severityThreshold) ==
    JsLess(severityLevels(severity), severityLevels(severityThreshold))

BlockingEnabledAlways(present, branchConfig) == present

\* handleReviewResults: branchConfig && branchConfig.blocking
BlockingEnabled(present, branchConfig) == present /\ branchConfig.blocking

\* ---------------------------------------------------------------- raw responses
(* A raw response is the text "before ++ body ++ after": optional prose, an   *)
(* optional JSON text (possibly inside a ```json fence, possibly cut short), *)
(* optional prose. Prose is described by what the code can observe of it:    *)
(* whether it holds a "{", the quoted "field": "value" pairs in it, the      *)
(* severity keywords in it and its length.                                   *)
Fields == {"description", "severity", "line", "recommendation"}

Keywords == {"high severity", "critical", "medium severity", "moderate"}

NoProse == [present |-> FALSE, brace |-> FALSE, pairs |-> <<>>, keywords |-> {}, length |-> 0]

Pair(f, v) == [field |-> f, value |-> v]

Pairs ==
    {Pair("description", "X"), Pair("line", "12"), Pair("recommendation", "Fix")}
    \cup {Pair("severity", s) : s \in SeverityStrings}

PairSeqs == UNION {[1..n -> Pairs] : n \in 0..MaxPairs}

KeywordSets ==
    {{}, {"critical"}, {"high severity"}, {"moderate"}, {"medium severity"},
     {"critical", "moderate"}}

\* lengths of prose: short, exactly the minimum of the generic issue, just above it
ProseLengths == {40, 100, 101}

Proses ==
    [present : {TRUE}, brace : BOOLEAN, pairs : PairSeqs, keywords : KeywordSets,
     length : ProseLengths]

PlainProse == [present |-> TRUE, brace |-> FALSE, pairs |-> <<>>, keywords |-> {}, length |-> 40]
BraceProse == [PlainProse EXCEPT !.brace = TRUE]

JsonIssue(sev) ==
    [description |-> "X", severity |-> sev, line |-> "12", recommendation |-> "Fix"]

JsonIssueSeqs ==
    UNION {[1..n -> {JsonIssue(s) : s \in SeverityStrings \cup {Undefined}}] :
              n \in 0..MaxJsonIssues}

NoBody ==
    [kind |-> "none", issues_kind |-> "missing", issues |-> <<>>,
     severity |-> Undefined, truncated |-> FALSE]

\* JSON texts that are not an object: null, a number, an array without objects
ScalarBodies == {[NoBody EXCEPT !.kind = k] : k \in {"null", "number", "array"}}

ObjectBodies ==
    [kind : {"object"}, issues_kind : {"array"}, issues : JsonIssueSeqs,
     severity : SeverityStrings \cup {Undefined}, truncated : BOOLEAN]
    \cup
    [kind : {"object"}, issues_kind : {"missing"}, issues : {<<>>},
     severity : SeverityStrings \cup {Undefined}, truncated : BOOLEAN]

Bodies == {NoBody} \cup ScalarBodies \cup ObjectBodies

Response(b, f, j, a) == [before |-> b, fenced |-> f, body |-> j, after |-> a]

EmptyResponse == Response(NoProse, FALSE, NoBody, NoProse)

Responses ==
    {Response(b, f, j, a) :
        b \in {NoProse, PlainProse, BraceProse}, f \in BOOLEAN,
        j \in Bodies \ {NoBody}, a \in {NoProse, PlainProse}}
    \cup {Response(b, FALSE, NoBody, NoProse) : b \in Proses}
    \cup {EmptyResponse}

BodyLength(j) ==
    CASE j.kind = "none" -> 0
      [] j.kind = "object" ->
            15 + 90 * Len(j.issues) + (IF j.severity = Undefined THEN 0 ELSE 20)
      [] OTHER -> 4

\* responseContent.length
Length(r) ==
    r.before.length + BodyLength(r.body) + r.after.length + (IF r.fenced THEN 10 ELSE 0)

RECURSIVE PairValues(_, _)
PairValues(ps, f) ==
    IF ps = <<>> THEN <<>>
    ELSE (IF Head(ps).field = f THEN <<Head(ps).value>> ELSE <<>>)
         \o PairValues(Tail(ps), f)

RECURSIVE IssueValues(_, _)
IssueValues(is, f) ==
    IF is = <<>> THEN <<>>
    ELSE (IF Head(is)[f] = Undefined THEN <<>> ELSE <<Head(is)[f]>>)
         \o IssueValues(Tail(is), f)

\* the "field": "value" pairs the JSON text of a body holds, in text order
BodyValues(j, f) ==
    IF j.kind # "object" THEN <<>>
    ELSE IssueValues(j.issues, f)
         \o (IF f = "severity" /\ j.severity # Undefined THEN <<j.severity>> ELSE <<>>)

\* [...responseContent.matchAll(/"<field>":\s*"([^"]+)"/g)], the captured groups
matchAll(r, f) ==
    PairValues(r.before.pairs, f) \o BodyValues(r.body, f) \o PairValues(r.after.pairs, f)

\* responseContent.toLowerCase().includes(keyword)
includes(r, keyword) == keyword \in (r.before.keywords \cup r.after.keywords)

\* ---------------------------------------------------------------- interpretation
Result(k, h, is, sev) == [kind |-> k, has_issues |-> h, issues |-> is, severity |-> sev]

EmptyResult == Result("object", TRUE, <<>>, "low")

Min(a, b) == IF a < b THEN a ELSE b

Max(a, b) == IF a > b THEN a ELSE b

LongEnoughInclusive(length) == length >= 100

\* parseTextResponse line 1056: responseContent.length > 100
LongEnough(length) == length > 100

\* parseTextResponse(responseContent, filename)
parseTextResponse(r) ==
    LET severity ==
            IF includes(r, "high severity") \/ includes(r, "critical") THEN "high"
            ELSE IF includes(r, "medium severity") \/ includes(r, "moderate") THEN "medium"
            ELSE "low"
        descriptions == matchAll(r, "description")
        severities == matchAll(r, "severity")
        lines == matchAll(r, "line")
        recommendations == matchAll(r, "recommendation")
        maxIssues == Max(Max(Len(descriptions), Len(severities)),
                         Max(Len(lines), Len(recommendations)))
        extracted ==
            [k \in 1..maxIssues |->
                [description |-> IF k <= Len(descriptions) THEN descriptions[k]
                                 ELSE "Issue found in code",
                 severity |-> IF k <= Len(severities) THEN severities[k] ELSE "medium",
                 line |-> IF k <= Len(lines) THEN lines[k] ELSE "unknown",
                 recommendation |-> IF k <= Len(recommendations) THEN recommendations[k]
                                    ELSE "Review the code for potential issues"]]
        generic ==
            [description |-> "Code analysis completed with findings",
             severity |-> "medium", line |-> "various",
             recommendation |-> "Review the OpenAI response for detailed analysis"]
    IN  IF maxIssues = 0 /\ LongEnough(Length(r))
        THEN Result("object", TRUE, <<generic>>, severity)
        ELSE Result("object", TRUE, extracted, severity)

\* lines 1236-1250: does JSON.parse(jsonContent) return a value (the body's)?
JsonParses(r) ==
    IF r.fenced
    THEN r.body.kind # "none" /\ ~r.body.truncated
    ELSE IF r.before.brace THEN FALSE
    ELSE IF r.body.kind = "object" THEN ~r.body.truncated /\ ~r.after.present
    ELSE IF r.after.brace THEN FALSE
    ELSE r.body.kind # "none" /\ ~r.before.present /\ ~r.after.present

\* lines 1251-1258: the logging of the decoded value raises a TypeError
LoggingThrows(j) ==
    \/ j.kind = "null"
    \/ /\ j.kind = "object"
       /\ j.issues_kind = "array"
       /\ \E k \in 1..Len(j.issues) : j.issues[k].severity = Undefined

\* the decoded value, returned as it is (line 1259)
Decoded(j) ==
    IF j.kind = "object"
    THEN Result("object", j.issues_kind = "array", j.issues, j.severity)
    ELSE Result(j.kind, FALSE, <<>>, Undefined)

\* analyzeWithOpenAI from line 1228 on: the interpretation of a received response
interpret(r) ==
    IF Length(r) = 0 THEN EmptyResult
    ELSE IF JsonParses(r) /\ ~LoggingThrows(r.body) THEN Decoded(r.body)
    ELSE LET fallbackResult == parseTextResponse(r)
         IN  IF Len(fallbackResult.issues) > 0 THEN fallbackResult ELSE EmptyResult

\* ---------------------------------------------------------------- aggregation
RECURSIVE flatSeverities(_)
\* reviewResults.flatMap(r => r.issues.map(i => i.severity))
flatSeverities(results) ==
    IF results = <<>> THEN <<>>
    ELSE [k \in 1..Len(Head(results).issues) |-> Head(results).issues[k].severity]
         \o flatSeverities(Tail(results))

RECURSIVE reduceFields(_, _)
reduceFields(results, max) ==
    IF results = <<>> THEN max
    ELSE reduceFields(Tail(results),
            IF JsGreater(severityLevels(Head(results).severity), severityLevels(max))
            THEN Head(results).severity ELSE max)

AggregateVerdictFields(results) == reduceFields(results, "low")

RECURSIVE reduce(_, _)
\* severities.reduce((max, severity) => levels[severity] > levels[max] ? severity : max, max)
reduce(sevs, max) ==
    IF sevs = <<>> THEN max
    ELSE reduce(Tail(sevs),
            IF JsGreater(severityLevels(Head(sevs)), severityLevels(max))
            THEN Head(sevs) ELSE max)

\* handleReviewResults lines 1409-1413
aggregate(results) == reduce(flatSeverities(results), "low")

\* ---------------------------------------------------------------- files and tasks
File(k, p) == [filename |-> k, patch |-> p]

FileLists(n) == {[k \in 1..n |-> File(k, p[k])] : p \in [1..n -> BOOLEAN]}

\* this.config.performance?.concurrency_limit || 3
DefaultConcurrencyLimit == 3
concurrencyLimit ==
    IF config.concurrency_limit = 0 THEN DefaultConcurrencyLimit
    ELSE config.concurrency_limit

Verdict(f, is, sev) == [file |-> f, issues |-> is, severity |-> sev]

Task(p, c, a, r, v) == [pc |-> p, content |-> c, call |-> a, result |-> r, value |-> v]

Waiting == Task("waiting", "none", "none", <<>>, <<>>)

\* processFile up to its first await (lines 1134-1155, 1174-1217)
StartTask(file) ==
    IF file.patch
    THEN Task("analyzing", "patch", "inflight", <<>>, <<>>)
    ELSE Task("fetching", "none", "none", <<>>, <<>>)

\* what getFileContent resolves to: null (an API error, not a file), the empty
\* string (an empty file), or text
Contents == {"null", "empty", "text"}

NoContentOnlyNull(content) == content = "null"

\* processFile line 1144: !content
NoContent(content) == content \in {"null", "empty"}

\* processFile from the settling of getFileContent to its return or next await
\* (lines 1141-1155, 1174-1217)
AfterFetch(content) ==
    LET got == CASE content = "null" -> "unavailable"
                 [] content = "empty" -> "empty"
                 [] OTHER -> "fetched"
    IN  IF NoContent(content)
        THEN Task("settled", got, "none", <<>>, <<>>)
        ELSE Task("analyzing", got, "inflight", <<>>, <<>>)

ProcessFileReturnAlways(file, result) ==
    <<Verdict(file.filename, result.issues, result.severity)>>

\* processFile lines 1158-1166: the value the promise is fulfilled with
ProcessFileReturn(file, result) ==
    IF result.has_issues /\ Len(result.issues) > 0
    THEN <<Verdict(file.filename, result.issues, result.severity)>>
    ELSE <<>>

BatchOfInclusive(fs, from) ==
    {k \in 1..Len(fs) : from <= k /\ k <= from + concurrencyLimit}

BatchOfRest(fs, from) == {k \in 1..Len(fs) : from < k}

BatchOfSkipping(fs, from) ==
    {k \in 1..Len(fs) : from + 1 < k /\ k <= from + concurrencyLimit + 1}

\* fs.slice(from, from + concurrencyLimit), as indices
BatchOf(fs, from) == {k \in 1..Len(fs) : from < k /\ k <= from + concurrencyLimit}

\* files.slice(i, i + concurrencyLimit), as indices
Batch(from) == BatchOf(files, from)

\* a batch in input order
InOrder(b) == [n \in 1..Cardinality(b) |-> CHOOSE k \in b : Cardinality({m \in b : m < k}) = n - 1]

AnySettled(from) == \E k \in Batch(from) : task[k].pc = "settled"

\* await Promise.allSettled(batchPromises): every promise of the batch has settled
AllSettled(from) == \A k \in Batch(from) : task[k].pc = "settled"

\* batch.map(file => this.processFile(file, branchConfig))
StartBatch(from) ==
    /\ task' = [k \in 1..Len(files) |->
                    IF k \in Batch(from) THEN StartTask(files[k]) ELSE task[k]]
    /\ metrics' = [metrics EXCEPT !.openaiCalls =
                    @ + Cardinality({k \in Batch(from) : files[k].patch})]
    /\ batches' = Append(batches, InOrder(Batch(from)))

RECURSIVE CollectReversed(_, _)
CollectReversed(from, to) ==
    IF from >= to THEN <<>> ELSE CollectReversed(from + 1, to) \o task[from + 1].value

RECURSIVE CollectUntilNull(_, _)
CollectUntilNull(from, to) ==
    IF from >= to \/ task[from + 1].value = <<>> THEN <<>>
    ELSE task[from + 1].value \o CollectUntilNull(from + 1, to)

RECURSIVE Collect(_, _)
\* batchResults.forEach(...): the fulfilled non-null values of tasks from+1..to, in order
Collect(from, to) ==
    IF from >= to THEN <<>> ELSE task[from + 1].value \o Collect(from + 1, to)

ReviewCodeNeverReturnsEarly(present) == FALSE

\* reviewCode lines 1101-1106: if (!branchConfig) return []
ReviewCodeReturnsEarly(present) == ~present

\* whether this.config.branches[name.toLowerCase()] is defined
Lookup(table, name) == toLowerCase(name) \in DOMAIN table

\* ---------------------------------------------------------------- configurations
Policy(b, t, c) ==
    [blocking |-> b, severity_threshold |-> t, blocking_criteria |-> c,
     custom_blocking_rules |-> [defined |-> FALSE, entries |-> [s \in {} |-> TRUE]]]

\* the branch table of the shipped configuration: dev and uat do not block,
\* main blocks on high severity
ShippedBranches ==
    [b \in {"dev", "uat", "main"} |->
        CASE b = "dev" -> Policy(FALSE, "medium", Undefined)
          [] b = "uat" -> Policy(FALSE, "low", Undefined)
          [] b = "main" -> Policy(TRUE, "low", "high_only")]

BranchNames == {"dev", "UAT", "main", "feature"}

ConcurrencyLimits == {0, 1, 2}

\* responses of the analysis service in a run
RunResponses ==
    {Response(NoProse, FALSE,
        [kind |-> "object", issues_kind |-> "array", issues |-> <<>>,
         severity |-> "low", truncated |-> FALSE], NoProse),
     Response(NoProse, FALSE,
        [kind |-> "object", issues_kind |-> "array", issues |-> <<JsonIssue("high")>>,
         severity |-> "low", truncated |-> FALSE], NoProse),
     Response(PlainProse, TRUE,
        [kind |-> "object", issues_kind |-> "array",
         issues |-> <<JsonIssue("low"), JsonIssue("high"), JsonIssue("medium")>>,
         severity |-> "high", truncated |-> FALSE], NoProse),
     Response(NoProse, FALSE,
        [kind |-> "object", issues_kind |-> "array", issues |-> <<JsonIssue("High")>>,
         severity |-> "High", truncated |-> FALSE], NoProse),
     Response([PlainProse EXCEPT !.pairs = <<Pair("description", "X")>>],
        FALSE, NoBody, NoProse),
     Response(PlainProse, FALSE, NoBody, NoProse)}

\* ---------------------------------------------------------------- the run
\* no filterFiles or matchesPattern call is under examination
NoMatching ==
    /\ changedFiles = <<>>
    /\ filename = ""
    /\ pattern = ""
    /\ matched = FALSE

Init ==
    /\ config \in [branches : {ShippedBranches}, concurrency_limit : ConcurrencyLimits]
    /\ branchName \in BranchNames
    /\ pc = "start"
    /\ files \in UNION {FileLists(n) : n \in 0..MaxFiles}
    /\ i = 0
    /\ task = [k \in 1..Len(files) |-> Waiting]
    /\ issues = <<>>
    /\ metrics = [filesProcessed |-> 0, openaiCalls |-> 0]
    /\ reviewResults = <<>>
    /\ maxSeverity = Undefined
    /\ report = "none"
    /\ exitCode = -1
    /\ responseContent = EmptyResponse
    /\ reviewResult = EmptyResult
    /\ batches = <<>>
    /\ NoMatching

\* getRecentFiles(): recent files carry no patch
RecentFileLists == {[k \in 1..n |-> File(k, FALSE)] : n \in 0..MaxFiles}

\* reviewCode(files) up to its first await
ReviewCode ==
    IF ReviewCodeReturnsEarly(Lookup(config.branches, branchName))
    THEN /\ pc' = "handle"
         /\ reviewResults' = <<>>
         /\ task' = [k \in 1..Len(files') |-> Waiting]
         /\ UNCHANGED <<metrics, batches>>
    ELSE /\ pc' = "dispatch"
         /\ task' = [k \in 1..Len(files') |->
                        IF k \in BatchOf(files', 0) THEN StartTask(files'[k]) ELSE Waiting]
         /\ metrics' = [metrics EXCEPT !.openaiCalls =
                @ + Cardinality({k \in BatchOf(files', 0) : files'[k].patch})]
         /\ batches' = Append(batches, InOrder(BatchOf(files', 0)))
         /\ UNCHANGED reviewResults

\* run(): the filtered change set, or the recent files when it is empty
Run ==
    /\ pc = "start"
    /\ \/ /\ Len(files) > 0
          /\ files' = files
          /\ ReviewCode
          /\ UNCHANGED exitCode
       \/ /\ Len(files) = 0
          /\ \E recentFiles \in RecentFileLists :
                /\ files' = recentFiles
                /\ IF Len(recentFiles) > 0
                   THEN ReviewCode /\ UNCHANGED exitCode
                   ELSE /\ pc' = "exited"
                        /\ exitCode' = 0
                        /\ task' = <<>>
                        /\ UNCHANGED <<metrics, reviewResults, batches>>
    /\ UNCHANGED <<config, branchName, i, issues, maxSeverity, report,
                   responseContent, reviewResult, matchVars>>

\* getFileContent settles with one of the contents
FetchSettlesWith(contents) ==
    /\ pc = "dispatch"
    /\ \E k \in 1..Len(files), content \in contents :
        /\ task[k].pc = "fetching"
        /\ task' = [task EXCEPT ![k] = AfterFetch(content)]
        /\ metrics' = IF task'[k].call = "inflight"
                      THEN [metrics EXCEPT !.openaiCalls = @ + 1]
                      ELSE metrics
    /\ UNCHANGED <<config, branchName, pc, files, i, issues, reviewResults,
                   maxSeverity, report, exitCode, responseContent, reviewResult,
                   batches, matchVars>>

\* getFileContent settles: text, the empty string, or null
FetchSettles == FetchSettlesWith(Contents)

\* getFileContent settles with null: the API call failed or the path is no file
FetchFails == FetchSettlesWith({"null"})

IncrementLosingUpdates(counter) == IF counter = 0 THEN 1 ELSE counter

\* processFile line 1156: this.metrics.filesProcessed++, a read and a write with
\* no await between them
Increment(counter) == counter + 1

\* the analysis-service call settles: rejected, or fulfilled with one of the
\* responses
AnalyzeSettlesWith(responses) ==
    /\ pc = "dispatch"
    /\ \E k \in 1..Len(files) :
        /\ task[k].pc = "analyzing"
        /\ \/ task' = [task EXCEPT ![k] =
                    Task("settled", @.content, "rejected", <<EmptyResult>>,
                         ProcessFileReturn(files[k], EmptyResult))]
           \/ \E r \in responses :
                task' = [task EXCEPT ![k] =
                    Task("settled", @.content, "fulfilled", <<interpret(r)>>,
                         ProcessFileReturn(files[k], interpret(r)))]
    /\ metrics' = [metrics EXCEPT !.filesProcessed = Increment(@)]
    /\ UNCHANGED <<config, branchName, pc, files, i, issues, reviewResults,
                   maxSeverity, report, exitCode, responseContent, reviewResult,
                   batches, matchVars>>

\* the analysis-service call settles: rejected, or fulfilled with a response
AnalyzeSettles == AnalyzeSettlesWith(RunResponses)

\* Promise.allSettled(batchPromises) resolves: collect, then next batch or return
BatchSettled ==
    /\ pc = "dispatch"
    /\ AllSettled(i)
    /\ issues' = issues \o Collect(i, IF i + concurrencyLimit < Len(files)
                                      THEN i + concurrencyLimit ELSE Len(files))
    /\ i' = i + concurrencyLimit
    /\ IF i' < Len(files)
       THEN /\ StartBatch(i')
            /\ UNCHANGED <<pc, reviewResults>>
       ELSE /\ pc' = "handle"
            /\ reviewResults' = issues'
            /\ UNCHANGED <<task, metrics, batches>>
    /\ UNCHANGED <<config, branchName, files, maxSeverity, report, exitCode,
                   responseContent, reviewResult, matchVars>>

PublicationNotAwaited == "gate"

\* handleReviewResults line 1418: await this.createGitHubIssue(...), the run
\* waits for the publication to settle
PublicationAwaited == "publishing"

FoundIssuesAlways(results) == TRUE

\* handleReviewResults line 1407: reviewResults.length > 0
FoundIssues(results) == Len(results) > 0

\* handleReviewResults up to the await of issues.create (createGitHubIssue inlined)
HandleReviewResults ==
    /\ pc = "handle"
    /\ IF FoundIssues(reviewResults)
       THEN /\ maxSeverity' = aggregate(reviewResults)
            /\ IF \/ ~Lookup(config.branches, branchName)
                  \/ BelowThreshold(maxSeverity', BranchConfig.severity_threshold)
               THEN report' = "skipped" /\ pc' = "gate"
               ELSE report' = "inflight" /\ pc' = PublicationAwaited
            /\ UNCHANGED exitCode
       ELSE /\ pc' = "exited"
            /\ exitCode' = 0
            /\ UNCHANGED <<maxSeverity, report>>
    /\ UNCHANGED <<config, branchName, files, i, task, issues, metrics, reviewResults,
                   responseContent, reviewResult, batches, matchVars>>

AfterPublishFailedExits(code) == [pc |-> "exited", exitCode |-> 1]

\* createGitHubIssue's catch (lines 1344-1368): the error is logged and the
\* method returns, 'Continuing without creating issue...'
AfterPublishFailed(code) == [pc |-> "gate", exitCode |-> code]

\* octokit.rest.issues.create settles: the issue is created, or the call fails
PublishSettles ==
    /\ pc = "publishing"
    /\ \/ /\ report' = "created"
          /\ pc' = "gate"
          /\ UNCHANGED exitCode
       \/ /\ report' = "failed"
          /\ pc' = AfterPublishFailed(exitCode).pc
          /\ exitCode' = AfterPublishFailed(exitCode).exitCode
    /\ UNCHANGED <<config, branchName, files, i, task, issues, metrics, reviewResults,
                   maxSeverity, responseContent, reviewResult, batches, matchVars>>

\* handleReviewResults lines 1420-1443: block (process.exit(1)) or finish
Gate ==
    /\ pc = "gate"
    /\ pc' = "exited"
    /\ exitCode' =
        IF /\ BlockingEnabled(Lookup(config.branches, branchName), BranchConfig)
           /\ shouldBlockCommit(maxSeverity, BranchConfig)
        THEN 1 ELSE 0
    /\ UNCHANGED <<config, branchName, files, i, task, issues, metrics, reviewResults,
                   maxSeverity, report, responseContent, reviewResult, batches, matchVars>>

Next ==
    \/ Run
    \/ FetchSettles
    \/ AnalyzeSettles
    \/ BatchSettled
    \/ HandleReviewResults
    \/ PublishSettles
    \/ Gate

Spec == Init /\ [][Next]_vars

\* ---------------------------------------------------------------- handleReviewResults alone
(* handleReviewResults on every policy, entered from a dispatch in which each *)
(* file carried a patch and was analysed, the service answering one verdict   *)
(* per file (or, for the empty list, a single file with no content).          *)
GateIssues == {JsonIssue(s) : s \in SeverityStrings}

RECURSIVE GateVerdictLists(_)
\* the lists of issue lists, each non-empty, that hold at most budget issues in all
GateVerdictLists(budget) ==
    {<<>>} \cup
    UNION {{<<is>> \o rest : is \in [1..n -> GateIssues],
                             rest \in GateVerdictLists(budget - n)} : n \in 1..budget}

\* the batches a dispatch of n files with limit k has started when it returns
BatchesOf(n, k) ==
    [b \in 1..((n + k - 1) \div k) |->
        [m \in 1..(IF b * k <= n THEN k ELSE n - (b - 1) * k) |-> (b - 1) * k + m]]

InitGate ==
    /\ config \in [branches : {[b \in {"main"} |-> p] : p \in Policies},
                   concurrency_limit : {0}]
    /\ branchName = "main"
    /\ pc = "handle"
    /\ \E vl \in GateVerdictLists(MaxIssues) :
        /\ reviewResults = [k \in 1..Len(vl) |-> Verdict(k, vl[k], "low")]
        /\ files = IF vl = <<>> THEN <<File(1, FALSE)>>
                   ELSE [k \in 1..Len(vl) |-> File(k, TRUE)]
        /\ task = IF vl = <<>>
                  THEN <<Task("settled", "unavailable", "none", <<>>, <<>>)>>
                  ELSE [k \in 1..Len(vl) |->
                          Task("settled", "patch", "fulfilled",
                               <<Result("object", TRUE, vl[k], "low")>>,
                               <<Verdict(k, vl[k], "low")>>)]
        /\ metrics = [filesProcessed |-> Len(vl), openaiCalls |-> Len(vl)]
    /\ i = DefaultConcurrencyLimit * ((Len(files) + DefaultConcurrencyLimit - 1)
                                        \div DefaultConcurrencyLimit)
    /\ issues = reviewResults
    /\ maxSeverity = Undefined
    /\ report = "none"
    /\ exitCode = -1
    /\ responseContent = EmptyResponse
    /\ reviewResult = EmptyResult
    /\ batches = BatchesOf(Len(files), DefaultConcurrencyLimit)
    /\ NoMatching

NextGate ==
    \/ HandleReviewResults
    \/ PublishSettles
    \/ Gate

SpecGate == InitGate /\ [][NextGate]_vars

\* ---------------------------------------------------------------- interpretation alone
InitInterpret ==
    /\ config = [branches |-> ShippedBranches, concurrency_limit |-> 0]
    /\ branchName = "main"
    /\ pc = "interpret"
    /\ files = <<File(1, TRUE)>>
    /\ i = 0
    /\ task = <<Task("analyzing", "patch", "inflight", <<>>, <<>>)>>
    /\ issues = <<>>
    /\ metrics = [filesProcessed |-> 0, openaiCalls |-> 1]
    /\ reviewResults = <<>>
    /\ maxSeverity = Undefined
    /\ report = "none"
    /\ exitCode = -1
    /\ responseContent \in Responses
    /\ reviewResult = EmptyResult
    /\ batches = <<<<1>>>>
    /\ NoMatching

\* analyzeWithOpenAI receives responseContent and returns its interpretation
Interpret ==
    /\ pc = "interpret"
    /\ pc' = "interpreted"
    /\ reviewResult' = interpret(responseContent)
    /\ UNCHANGED <<config, branchName, files, i, task, issues, metrics, reviewResults,
                   maxSeverity, report, exitCode, responseContent, batches, matchVars>>

NextInterpret == Interpret

SpecInterpret == InitInterpret /\ [][NextInterpret]_vars

\* ---------------------------------------------------------------- batching alone
(* reviewCode over longer file lists and every limit, in the runs where no    *)
(* file carries a patch and every content retrieval fails, so that a task     *)
(* settles without an analysis.                                               *)
InitBatch ==
    /\ config \in [branches : {ShippedBranches}, concurrency_limit : 0..MaxLimit]
    /\ branchName = "main"
    /\ pc = "start"
    /\ files \in {[k \in 1..n |-> File(k, FALSE)] : n \in 1..MaxBatchFiles}
    /\ i = 0
    /\ task = [k \in 1..Len(files) |-> Waiting]
    /\ issues = <<>>
    /\ metrics = [filesProcessed |-> 0, openaiCalls |-> 0]
    /\ reviewResults = <<>>
    /\ maxSeverity = Undefined
    /\ report = "none"
    /\ exitCode = -1
    /\ responseContent = EmptyResponse
    /\ reviewResult = EmptyResult
    /\ batches = <<>>
    /\ NoMatching

NextBatch ==
    \/ Run
    \/ FetchFails
    \/ BatchSettled
    \/ HandleReviewResults

SpecBatch == InitBatch /\ [][NextBatch]_vars

\* ---------------------------------------------------------------- dispatch under fairness
(* reviewCode on the main branch, every started call settling eventually and  *)
(* every continuation of reviewCode being run: the event loop runs a ready    *)
(* continuation, and a call that settles is the hypothesis under which the    *)
(* dispatch is claimed to return. The service answers with a clean result or  *)
(* with one issue.                                                            *)
LiveResponses ==
    {Response(NoProse, FALSE,
        [kind |-> "object", issues_kind |-> "array", issues |-> <<>>,
         severity |-> "low", truncated |-> FALSE], NoProse),
     Response(NoProse, FALSE,
        [kind |-> "object", issues_kind |-> "array", issues |-> <<JsonIssue("high")>>,
         severity |-> "high", truncated |-> FALSE], NoProse)}

InitLive ==
    /\ config \in [branches : {ShippedBranches}, concurrency_limit : ConcurrencyLimits]
    /\ branchName = "main"
    /\ pc = "start"
    /\ files \in UNION {FileLists(n) : n \in 0..MaxFiles}
    /\ i = 0
    /\ task = [k \in 1..Len(files) |-> Waiting]
    /\ issues = <<>>
    /\ metrics = [filesProcessed |-> 0, openaiCalls |-> 0]
    /\ reviewResults = <<>>
    /\ maxSeverity = Undefined
    /\ report = "none"
    /\ exitCode = -1
    /\ responseContent = EmptyResponse
    /\ reviewResult = EmptyResult
    /\ batches = <<>>
    /\ NoMatching

\* the analysis-service call settles, with one of the two responses
AnalyzeSettlesLive == AnalyzeSettlesWith(LiveResponses)

NextLive ==
    \/ Run
    \/ FetchSettles
    \/ AnalyzeSettlesLive
    \/ BatchSettled

SpecLive ==
    /\ InitLive
    /\ [][NextLive]_vars
    /\ WF_vars(Run)
    /\ WF_vars(FetchSettles)
    /\ WF_vars(AnalyzeSettlesLive)
    /\ WF_vars(BatchSettled)

\* ---------------------------------------------------------------- strings
\* String.prototype.startsWith
startsWith(s, t) == Len(t) <= Len(s) /\ SubSeq(s, 1, Len(t)) = t

\* String.prototype.endsWith
endsWith(s, t) == Len(t) <= Len(s) /\ SubSeq(s, Len(s) - Len(t) + 1, Len(s)) = t

\* the 1-based positions at which t occurs in s
Occurrences(s, t) ==
    {n \in 1..(Len(s) - Len(t) + 1) : SubSeq(s, n, n + Len(t) - 1) = t}

\* String.prototype.includes, on paths and patterns
stringIncludes(s, t) == Occurrences(s, t) # {}

RECURSIVE split(_, _)
\* String.prototype.split with a non-empty separator
split(s, sep) ==
    IF Occurrences(s, sep) = {} THEN <<s>>
    ELSE LET n == CHOOSE m \in Occurrences(s, sep) :
                        \A o \in Occurrences(s, sep) : m <= o
         IN  <<SubSeq(s, 1, n - 1)>> \o split(SubSeq(s, n + Len(sep), Len(s)), sep)

UpperCase == "ABCDEFGHIJKLMNOPQRSTUVWXYZ"
LowerCase == "abcdefghijklmnopqrstuvwxyz"

RECURSIVE toLowerCasePath(_)
\* String.prototype.toLowerCase, character by character
toLowerCasePath(s) ==
    IF s = "" THEN ""
    ELSE LET at == Occurrences(UpperCase, Head(s))
         IN  (IF at = {} THEN Head(s)
              ELSE LET n == CHOOSE m \in at : TRUE IN SubSeq(LowerCase, n, n))
             \o toLowerCasePath(Tail(s))

RECURSIVE regexTest(_, _)
\* new RegExp('^' + ... + '$').test(s) for a pattern of literal characters and
\* '*', each '*' standing for [^/]* (lines 995-1001)
regexTest(s, p) ==
    IF p = "" THEN s = ""
    ELSE IF Head(p) = "*"
    THEN \E n \in 0..Len(s) :
            /\ ~stringIncludes(SubSeq(s, 1, n), "/")
            /\ regexTest(SubSeq(s, n + 1, Len(s)), Tail(p))
    ELSE s # "" /\ Head(s) = Head(p) /\ regexTest(Tail(s), Tail(p))

\* ---------------------------------------------------------------- matchesPattern
PatternLengthCap == 1000
PatternPartsCap == 10

UnderTopDirectory(path, name) == startsWith(path, name \o "/")

\* filename.includes('/name/') || filename.startsWith('name/')
UnderDirectory(path, name) ==
    stringIncludes(path, "/" \o name \o "/") \/ startsWith(path, name \o "/")

\* the patterns matchesPattern answers from its table (lines 916-972)
KnownPatterns ==
    {"**/node_modules/**", "**/*.js", "**/*.env*", "**/*.key", "**/*.pem", "**/*.p12",
     "**/*.pfx", "**/credentials*", "**/secrets*", "**/*.db", "**/*.sqlite",
     "**/*.sqlite3", "**/database*", "**/db/*", "**/migrations/*", "**/dist/**",
     "**/build/**", "**/.git/**"}

\* the answer of the table for one of its patterns
KnownPattern(path, pat) ==
    CASE pat = "**/node_modules/**" -> UnderDirectory(path, "node_modules")
      [] pat = "**/*.js" -> endsWith(path, ".js")
      [] pat = "**/*.env*" -> stringIncludes(path, ".env")
      [] pat = "**/*.key" -> endsWith(path, ".key")
      [] pat = "**/*.pem" -> endsWith(path, ".pem")
      [] pat = "**/*.p12" -> endsWith(path, ".p12")
      [] pat = "**/*.pfx" -> endsWith(path, ".pfx")
      [] pat = "**/credentials*" -> stringIncludes(path, "credentials")
      [] pat = "**/secrets*" -> stringIncludes(path, "secrets")
      [] pat = "**/*.db" -> endsWith(path, ".db")
      [] pat = "**/*.sqlite" -> endsWith(path, ".sqlite")
      [] pat = "**/*.sqlite3" -> endsWith(path, ".sqlite3")
      [] pat = "**/database*" -> stringIncludes(path, "database")
      [] pat = "**/db/*" -> startsWith(path, "db/")
      [] pat = "**/migrations/*" -> startsWith(path, "migrations/")
      [] pat = "**/dist/**" -> UnderDirectory(path, "dist")
      [] pat = "**/build/**" -> UnderDirectory(path, "build")
      [] pat = "**/.git/**" -> UnderDirectory(path, ".git")

\* lines 975-989: a pattern that '**' splits in two parts
GenericPattern(path, prefix, suffix) ==
    IF prefix = "" /\ suffix = "" THEN TRUE
    ELSE IF prefix = "" THEN endsWith(path, suffix)
    ELSE IF suffix = "" THEN startsWith(path, prefix)
    ELSE stringIncludes(path, prefix \o suffix)

AtLeastTwoParts(parts) == Len(parts) >= 2

\* line 976: parts.length === 2
TwoParts(parts) == Len(parts) = 2

\* matchesPattern(filename, pattern), for patterns made of literal characters
\* and '*'
matchesPattern(path, pat) ==
    LET parts == split(pat, "**")
    IN  IF Len(pat) > PatternLengthCap THEN FALSE
        ELSE IF stringIncludes(pat, "**") /\ Len(parts) > PatternPartsCap THEN FALSE
        ELSE IF stringIncludes(pat, "**") /\ pat \in KnownPatterns
        THEN KnownPattern(path, pat)
        ELSE IF stringIncludes(pat, "**") /\ TwoParts(parts)
        THEN GenericPattern(path, parts[1], parts[2])
        ELSE IF stringIncludes(pat, "*") /\ ~stringIncludes(pat, "**")
        THEN regexTest(path, pat)
        ELSE path = pat

\* ---------------------------------------------------------------- filterFiles
RECURSIVE matchesAny(_, _)
\* for (const pattern of excludePatterns) if (this.matchesPattern(...)) return false
matchesAny(path, patterns) ==
    IF patterns = <<>> THEN FALSE
    ELSE IF matchesPattern(path, Head(patterns)) THEN TRUE
    ELSE matchesAny(path, Tail(patterns))

\* includeExtensions.some(ext => filename.toLowerCase().endsWith(ext.toLowerCase()))
hasValidExtension(path, includeExtensions) ==
    \E n \in 1..Len(includeExtensions) :
        endsWith(toLowerCasePath(path), toLowerCasePath(includeExtensions[n]))

ShouldIncludeFileByExtension(path) ==
    hasValidExtension(path, config.global.include_extensions)

\* the callback of files.filter in filterFiles (lines 883-895), the body of
\* shouldIncludeFile (lines 861-876)
shouldIncludeFile(path) ==
    IF matchesAny(path, config.global.exclude_patterns) THEN FALSE
    ELSE hasValidExtension(path, config.global.include_extensions)

RECURSIVE filterFiles(_)
\* files.filter(file => ...)
filterFiles(fs) ==
    IF fs = <<>> THEN <<>>
    ELSE (IF shouldIncludeFile(Head(fs).filename) THEN <<Head(fs)>> ELSE <<>>)
         \o filterFiles(Tail(fs))

\* ---------------------------------------------------------------- matchesPattern alone
DirNames == {"src", "node_modules", "dist", "build", ".git", "vendor", "db"}

FileNames ==
    {"app.js", "foo.js", "App.JS", "a.txt", "debug.log", ".env", "id.key",
     "node_modules", "dist", "build", ".git"}

RECURSIVE Dirs(_)
\* the directory prefixes of at most depth segments
Dirs(depth) ==
    IF depth = 0 THEN {""}
    ELSE {""} \cup {d \o n \o "/" : d \in Dirs(depth - 1), n \in DirNames}

\* paths whose segments are named with '*' characters, as a repository may hold
StarPaths == {"**/vendor/**", "a**a**a**a**a**a**a**a**a**a**a"}

Paths == {d \o f : d \in Dirs(MaxDepth), f \in FileNames} \cup StarPaths

RECURSIVE Repeat(_, _)
\* String.prototype.repeat
Repeat(s, n) ==
    IF n = 0 THEN ""
    ELSE IF n % 2 = 0 THEN LET half == Repeat(s, n \div 2) IN half \o half
    ELSE s \o Repeat(s, n - 1)

\* patterns of the table, patterns of the shapes the setup guide documents for
\* users, and patterns for each remaining branch of matchesPattern
Patterns ==
    KnownPatterns \cup
    {"**/*.log", "**/*.your-sensitive-file", "**/vendor/**",
     "**/your-excluded-directory/**", "**", "src/**", "src/**/app.js",
     "*.txt", "src/*.js", "a.txt",
     Repeat("a**", PatternPartsCap) \o "a", Repeat("a", PatternLengthCap + 1)}

InitPattern ==
    /\ config = [branches |-> ShippedBranches, concurrency_limit |-> 0]
    /\ branchName = "main"
    /\ pc = "match"
    /\ files = <<>>
    /\ i = 0
    /\ task = <<>>
    /\ issues = <<>>
    /\ metrics = [filesProcessed |-> 0, openaiCalls |-> 0]
    /\ reviewResults = <<>>
    /\ maxSeverity = Undefined
    /\ report = "none"
    /\ exitCode = -1
    /\ responseContent = EmptyResponse
    /\ reviewResult = EmptyResult
    /\ batches = <<>>
    /\ changedFiles = <<>>
    /\ filename \in Paths
    /\ pattern \in Patterns
    /\ matched = FALSE

\* a call matchesPattern(filename, pattern) returns
MatchesPattern ==
    /\ pc = "match"
    /\ pc' = "matched"
    /\ matched' = matchesPattern(filename, pattern)
    /\ UNCHANGED <<config, branchName, files, i, task, issues, metrics, reviewResults,
                   maxSeverity, report, exitCode, responseContent, reviewResult,
                   batches, changedFiles, filename, pattern>>

NextPattern == MatchesPattern

SpecPattern == InitPattern /\ [][NextPattern]_vars

\* ---------------------------------------------------------------- filterFiles alone
FilterPaths ==
    {"src/app.js", "src/App.JS", "lib/util.ts", "a.txt", "node_modules/foo.js",
     "config/.env.js"}

FilterPatterns == {"**/node_modules/**", "**/*.env*", "*.txt"}

IncludeExtensions == {<<".js", ".ts">>, <<".JS", ".txt">>}

SeqsUpTo(S, n) == UNION {[1..m -> S] : m \in 0..n}

InitFilter ==
    /\ config \in [branches : {ShippedBranches}, concurrency_limit : {0},
                   global : [exclude_patterns : SeqsUpTo(FilterPatterns, MaxPatterns),
                             include_extensions : IncludeExtensions]]
    /\ branchName = "main"
    /\ pc = "filter"
    /\ files = <<>>
    /\ i = 0
    /\ task = <<>>
    /\ issues = <<>>
    /\ metrics = [filesProcessed |-> 0, openaiCalls |-> 0]
    /\ reviewResults = <<>>
    /\ maxSeverity = Undefined
    /\ report = "none"
    /\ exitCode = -1
    /\ responseContent = EmptyResponse
    /\ reviewResult = EmptyResult
    /\ batches = <<>>
    /\ changedFiles \in SeqsUpTo({File(f, TRUE) : f \in FilterPaths}, MaxChanged)
    /\ filename = ""
    /\ pattern = ""
    /\ matched = FALSE

\* run() line 1378: const filteredFiles = this.filterFiles(changedFiles)
FilterFiles ==
    /\ pc = "filter"
    /\ pc' = "filtered"
    /\ files' = filterFiles(changedFiles)
    /\ UNCHANGED <<config, branchName, i, task, issues, metrics, reviewResults,
                   maxSeverity, report, exitCode, responseContent, reviewResult,
                   batches, matchVars>>

NextFilter == FilterFiles

SpecFilter == InitFilter /\ [][NextFilter]_vars

\* ================================================================ claims
\* the order low < medium < high, as a relation
StrictlyBelow(a, b) ==
    <<a, b>> \in {<<"low", "medium">>, <<"low", "high">>, <<"medium", "high">>}

MeetsThreshold(a, b) == a \in Severities /\ b \in Severities /\ ~StrictlyBelow(a, b)

\* the run has ended having computed an overall severity
Decided == pc = "exited" /\ maxSeverity # Undefined

Blocked == exitCode = 1

\* a publication call was made (whether or not it succeeded)
ReportRaised == report \in {"inflight", "created", "failed"}

KnownCriteria == {"high_only", "medium_and_high", "all_severities", "custom"}

C2_NonBlockingNeverBlocks ==
    (~BranchConfig.blocking) => ~Blocked

C2_Witness ==
    /\ Decided
    /\ ~BranchConfig.blocking
    /\ maxSeverity = "high"
    /\ BranchConfig.blocking_criteria = "all_severities"
    /\ exitCode = 0

\* C3: with blocking = true and blocking_criteria = all_severities the run blocks
\* for every overall severity that meets the reporting threshold, low included.
C3_AllSeveritiesBlocks ==
    (Decided /\ BranchConfig.blocking
        /\ BranchConfig.blocking_criteria = "all_severities"
        /\ MeetsThreshold(maxSeverity, BranchConfig.severity_threshold))
        => Blocked

C3_Witness ==
    /\ Decided
    /\ BranchConfig.blocking
    /\ BranchConfig.blocking_criteria = "all_severities"
    /\ maxSeverity = "low"
    /\ BranchConfig.severity_threshold = "low"
    /\ Blocked

\* C4: with blocking = true, blocking_criteria = custom and the threshold met, the
\* run blocks exactly when custom_blocking_rules maps the overall severity to true;
\* a severity without an entry, or a policy without a table, does not block.
C4_CustomRulesDecide ==
    (Decided /\ BranchConfig.blocking
        /\ BranchConfig.blocking_criteria = "custom"
        /\ MeetsThreshold(maxSeverity, BranchConfig.severity_threshold))
        => (Blocked <=>
                /\ BranchConfig.custom_blocking_rules.defined
                /\ maxSeverity \in DOMAIN BranchConfig.custom_blocking_rules.entries
                /\ BranchConfig.custom_blocking_rules.entries[maxSeverity])

C4_Witness ==
    /\ Decided
    /\ BranchConfig.blocking
    /\ BranchConfig.blocking_criteria = "custom"
    /\ maxSeverity = "medium"
    /\ MeetsThreshold(maxSeverity, BranchConfig.severity_threshold)
    /\ DOMAIN BranchConfig.custom_blocking_rules.entries = {"medium", "high"}
    /\ BranchConfig.custom_blocking_rules.entries["medium"]
    /\ ~BranchConfig.custom_blocking_rules.entries["high"]
    /\ Blocked

\* C5: with blocking = true and the threshold met, a missing or unknown
\* blocking_criteria decides as high_only: the run blocks exactly when the overall
\* severity is high.
C5_UnknownCriteriaIsHighOnly ==
    (Decided /\ BranchConfig.blocking
        /\ BranchConfig.blocking_criteria \notin KnownCriteria
        /\ MeetsThreshold(maxSeverity, BranchConfig.severity_threshold))
        => (Blocked <=> maxSeverity = "high")

C5_Witness ==
    /\ Decided
    /\ BranchConfig.blocking
    /\ BranchConfig.blocking_criteria = Undefined
    /\ maxSeverity = "high"
    /\ Blocked

\* C6: with blocking = true, blocking_criteria = medium_and_high and the threshold
\* met, the run blocks exactly when the overall severity is medium or high.
C6_MediumAndHigh ==
    (Decided /\ BranchConfig.blocking
        /\ BranchConfig.blocking_criteria = "medium_and_high"
        /\ MeetsThreshold(maxSeverity, BranchConfig.severity_threshold))
        => (Blocked <=> maxSeverity \in {"medium", "high"})

C6_Witness ==
    /\ Decided
    /\ BranchConfig.blocking
    /\ BranchConfig.blocking_criteria = "medium_and_high"
    /\ maxSeverity = "medium"
    /\ Blocked

\* no policy is configured under the (lower-cased) name of the run's branch
NoPolicyConfigured == \A b \in DOMAIN config.branches : b # toLowerCase(branchName)

\* C7: when no policy is configured for the run's branch, no analysis-service
\* call is made for any file, no report is published and the run never blocks.
C7_NoPolicyDoesNothing ==
    NoPolicyConfigured =>
        /\ metrics.openaiCalls = 0
        /\ \A k \in 1..Len(task) : task[k].call = "none"
        /\ ~ReportRaised
        /\ ~Blocked

C7_Witness ==
    /\ NoPolicyConfigured
    /\ pc = "exited"
    /\ Len(files) = MaxFiles
    /\ \E k \in 1..Len(files) : files[k].patch
    /\ exitCode = 0

\* the severities, among those of the order, of all issues of all verdicts
IssueSeverities(results) ==
    UNION {{results[k].issues[n].severity : n \in 1..Len(results[k].issues)} :
              k \in 1..Len(results)} \cap Severities

\* C8: the overall severity is the maximum, under low < medium < high, of the
\* severities of all issues over all verdicts (low when none is in the order),
\* whatever severity field the per-file results carry.
C8_OverallIsMaximum ==
    maxSeverity # Undefined =>
        LET S == IssueSeverities(reviewResults)
        IN  IF S = {} THEN maxSeverity = "low"
            ELSE /\ maxSeverity \in S
                 /\ \A s \in S : ~StrictlyBelow(maxSeverity, s)

C8_Witness ==
    /\ maxSeverity = "high"
    /\ Len(reviewResults) >= 2
    /\ \E k \in 1..Len(reviewResults) :
          /\ reviewResults[k].severity = "low"
          /\ \E n \in 1..Len(reviewResults[k].issues) :
                reviewResults[k].issues[n].severity = "high"
    /\ \E k \in 1..Len(reviewResults) :
          [n \in 1..Len(reviewResults[k].issues) |-> reviewResults[k].issues[n].severity]
            = <<"low", "high", "medium">>

\* C9 as stated: every interpreted result has severity low when it has no issues
\* and otherwise the maximum severity among its issues.
C9_ResultSeverityInvariant ==
    pc = "interpreted" =>
        LET S == {reviewResult.issues[n].severity : n \in 1..Len(reviewResult.issues)}
        IN  IF reviewResult.issues = <<>> THEN reviewResult.severity = "low"
            ELSE /\ reviewResult.severity \in S
                 /\ \A s \in S : s \in Severities /\ ~StrictlyBelow(reviewResult.severity, s)

\* reviewCode has returned its verdict list
DispatchReturned ==
    /\ pc \in {"handle", "publishing", "gate", "exited"}
    /\ Len(task) = Len(files)

VerdictsOf(k) == {n \in 1..Len(reviewResults) : reviewResults[n].file = files[k].filename}

\* C10 as stated: exactly one verdict for each file whose content was retrieved
\* and whose analysis returned a result, none for a file without content or whose
\* analysis failed.
C10_OneVerdictPerAnalyzedFile ==
    (DispatchReturned /\ ~NoPolicyConfigured) =>
        \A k \in 1..Len(files) :
            Cardinality(VerdictsOf(k)) =
                IF task[k].content \in {"patch", "fetched"} /\ task[k].call = "fulfilled"
                THEN 1 ELSE 0

\* C10 amended: exactly one verdict, carrying the result's issues, for each file
\* whose content was available and whose analysis returned a result with at least
\* one issue; no verdict for any other file (no content, failed analysis, or an
\* analysis that found no issue).
C10_OneVerdictPerFileWithIssues ==
    (DispatchReturned /\ ~NoPolicyConfigured) =>
        \A k \in 1..Len(files) :
            IF /\ task[k].result # <<>>
               /\ task[k].result[1].has_issues
               /\ task[k].result[1].issues # <<>>
            THEN /\ Cardinality(VerdictsOf(k)) = 1
                 /\ \A n \in VerdictsOf(k) :
                        reviewResults[n].issues = task[k].result[1].issues
            ELSE VerdictsOf(k) = {}

C10_Witness ==
    /\ pc = "handle"
    /\ Len(reviewResults) = 1
    /\ \E k \in 1..Len(files) : task[k].content = "unavailable"
    /\ \E k \in 1..Len(files) :
          /\ task[k].call = "fulfilled"
          /\ task[k].result[1].issues = <<>>
    /\ \E k \in 1..Len(files) :
          /\ task[k].call = "fulfilled"
          /\ task[k].result[1].issues # <<>>

\* the least c with c * k >= n
Ceil(n, k) == CHOOSE c \in 0..n : c * k >= n /\ (c = 0 \/ (c - 1) * k < n)

BatchSizes == [b \in 1..Len(batches) |-> Len(batches[b])]

RECURSIVE Flatten(_)
Flatten(ss) == IF ss = <<>> THEN <<>> ELSE Head(ss) \o Flatten(Tail(ss))

\* C11: a dispatch of n files with limit k >= 1 has formed, when it returns,
\* ceil(n/k) batches that are consecutive runs of the input in input order, each
\* of k files except the last, which has n - k*(ceil(n/k)-1); 7 files with limit
\* 3 give sizes 3, 3, 1.
C11_ConsecutiveBatches ==
    (DispatchReturned /\ ~NoPolicyConfigured) =>
        LET n == Len(files)
            k == concurrencyLimit
        IN  /\ Len(batches) = Ceil(n, k)
            /\ Flatten(batches) = [m \in 1..n |-> m]
            /\ \A b \in 1..Len(batches) :
                    Len(batches[b]) = IF b < Len(batches) THEN k
                                      ELSE n - k * (Ceil(n, k) - 1)
            /\ (n = 7 /\ k = 3) => BatchSizes = <<3, 3, 1>>

C11_Witness ==
    /\ DispatchReturned
    /\ Len(files) = 7
    /\ config.concurrency_limit = 3
    /\ BatchSizes = <<3, 3, 1>>

Range(seq) == {seq[n] : n \in 1..Len(seq)}

\* a content retrieval or an analysis call has been started for file k
Started(k) == task[k].pc # "waiting"

\* C12: a content retrieval or analysis call for a file starts only as part of
\* its batch, and only when every task of every earlier batch has settled.
C12_BatchesInSequence ==
    \A k \in 1..Len(task) :
        Started(k) =>
            \E b \in 1..Len(batches) :
                /\ k \in Range(batches[b])
                /\ \A c \in 1..(b - 1) : \A j \in Range(batches[c]) :
                        task[j].pc = "settled"

C12_Witness ==
    /\ Len(batches) = 2
    /\ \E k \in Range(batches[2]) : task[k].pc = "analyzing"
    /\ \E j \in Range(batches[1]) : task[j].call = "rejected"
    /\ \E j \in Range(batches[1]) : task[j].call = "fulfilled"

\* the files with an external call in flight: a content retrieval or an analysis
InFlight == {k \in 1..Len(task) : task[k].pc \in {"fetching", "analyzing"}}

\* C13: at every moment the number of external calls in flight (content
\* retrievals plus analysis calls) is at most the concurrency limit.
C13_InFlightWithinLimit == Cardinality(InFlight) <= concurrencyLimit

C13_Witness ==
    /\ pc = "dispatch"
    /\ Len(files) > concurrencyLimit
    /\ Cardinality(InFlight) = concurrencyLimit
    /\ \E k \in InFlight : task[k].pc = "fetching"
    /\ \E k \in InFlight : task[k].pc = "analyzing"

\* processing file k failed: its content retrieval failed or its analysis call
\* was rejected
Failed(k) == task[k].content = "unavailable" \/ task[k].call = "rejected"

\* the verdict file k yields on its own: that of the result of its own analysis
OwnVerdict(k) ==
    IF /\ task[k].result # <<>>
       /\ task[k].result[1].has_issues
       /\ task[k].result[1].issues # <<>>
    THEN <<Verdict(files[k].filename, task[k].result[1].issues,
                   task[k].result[1].severity)>>
    ELSE <<>>

\* C14: when processing a file fails, the dispatch still returns with every
\* file settled, and the verdict list is made of the verdicts the other files
\* yield on their own, in input order; the run exits with status 1 only from
\* the gate.
C14_FailureIsolated ==
    /\ (DispatchReturned /\ ~NoPolicyConfigured /\ \E f \in 1..Len(files) : Failed(f)) =>
            /\ \A k \in 1..Len(files) : task[k].pc = "settled"
            /\ reviewResults =
                    Flatten([k \in 1..Len(files) |->
                                IF Failed(k) THEN <<>> ELSE OwnVerdict(k)])
    /\ Blocked => (pc = "exited" /\ maxSeverity # Undefined)

C14_Witness ==
    /\ DispatchReturned
    /\ Len(files) = 3
    /\ Len(batches) = 2
    /\ Failed(1)
    /\ OwnVerdict(2) # <<>>
    /\ OwnVerdict(3) # <<>>
    /\ Len(reviewResults) = 2

\* the content retrieval of file k (which carries no patch) failed or gave
\* empty content
WithoutContent(k) == task[k].content \in {"unavailable", "empty"}

\* C15: a file without a patch whose content retrieval fails or yields empty
\* content is skipped: no analysis call is made for it, it yields no verdict,
\* and the counters count only the other files (analysis calls made, analyses
\* returned).
C15_SkippedWithoutContent ==
    /\ \A k \in 1..Len(task) :
            WithoutContent(k) =>
                /\ ~files[k].patch
                /\ task[k].pc = "settled"
                /\ task[k].call = "none"
                /\ task[k].value = <<>>
                /\ DispatchReturned => VerdictsOf(k) = {}
    /\ metrics.openaiCalls =
            Cardinality({k \in 1..Len(task) : ~WithoutContent(k) /\ task[k].call # "none"})
    /\ metrics.filesProcessed =
            Cardinality({k \in 1..Len(task) :
                            ~WithoutContent(k) /\ task[k].call \in {"fulfilled", "rejected"}})

C15_Witness ==
    /\ DispatchReturned
    /\ \E k \in 1..Len(task) : task[k].content = "unavailable"
    /\ \E k \in 1..Len(task) : task[k].content = "empty"
    /\ metrics.openaiCalls = 1
    /\ metrics.filesProcessed = 1
    /\ Len(reviewResults) = 1

\* a value that has an issues sequence and a severity
IsAnalysisResult(v) == v.kind = "object" /\ v.has_issues /\ v.severity # Undefined

\* C16: for every raw text, interpretation returns a value that has an issues
\* sequence and a severity (the empty result, severity low, on total failure).
C16_AlwaysAnalysisResult ==
    pc = "interpreted" => IsAnalysisResult(reviewResult)

\* some configured exclude pattern matches the path
Excluded(path) ==
    \E n \in 1..Len(config.global.exclude_patterns) :
        matchesPattern(path, config.global.exclude_patterns[n])

\* the path ends, letter case apart, with a configured include extension
HasIncludedExtension(path) ==
    \E ext \in Range(config.global.include_extensions) :
        endsWith(toLowerCasePath(path), toLowerCasePath(ext))

\* C17: filterFiles returns exactly the records of its input, in input order,
\* whose path matches no exclude pattern and ends, case-insensitively, with an
\* include extension; a path matching an exclude pattern is dropped whatever
\* its extension.
C17_FilterKeepsExactly ==
    pc = "filtered" =>
        LET kept == {k \in 1..Len(changedFiles) :
                        /\ ~Excluded(changedFiles[k].filename)
                        /\ HasIncludedExtension(changedFiles[k].filename)}
        IN  /\ files = [n \in 1..Cardinality(kept) |-> changedFiles[InOrder(kept)[n]]]
            /\ \A k \in 1..Len(changedFiles) :
                    Excluded(changedFiles[k].filename) =>
                        changedFiles[k] \notin Range(files)

C17_Witness ==
    /\ pc = "filtered"
    /\ changedFiles = <<File("node_modules/foo.js", TRUE), File("src/App.JS", TRUE)>>
    /\ config.global.exclude_patterns = <<"*.txt", "**/node_modules/**">>
    /\ config.global.include_extensions = <<".js", ".ts">>
    /\ files = <<File("src/App.JS", TRUE)>>

\* the segments of a path
Segments(path) == split(path, "/")

\* some segment of the path has that name
HasSegment(path, name) == name \in Range(Segments(path))

\* some segment of the path other than the last has that name: the path lies
\* under a directory of that name
LiesUnder(path, name) ==
    \E n \in 1..(Len(Segments(path)) - 1) : Segments(path)[n] = name

DirectoryPattern(name) == "**/" \o name \o "/**"

SuffixPattern(suffix) == "**/*." \o suffix

BuiltInDirectories == {"node_modules", "dist", "build", ".git"}

\* C18 as stated: "**/*.js" matches exactly the paths ending in ".js", and the
\* node_modules, dist, build and .git directory patterns match every path that
\* has a segment with that name.
C18_MatchesEverySegment ==
    pc = "matched" =>
        /\ pattern = SuffixPattern("js") => (matched <=> endsWith(filename, ".js"))
        /\ \A d \in BuiltInDirectories :
                (pattern = DirectoryPattern(d) /\ HasSegment(filename, d)) => matched

\* C18 amended: "**/*.js" matches exactly the paths ending in ".js", and the
\* node_modules, dist, build and .git directory patterns match exactly the
\* paths that lie under a directory of that name (a segment with that name
\* followed by a further segment); a path whose last segment has that name
\* does not match for it.
C18_MatchesUnderDirectory ==
    pc = "matched" =>
        /\ pattern = SuffixPattern("js") => (matched <=> endsWith(filename, ".js"))
        /\ \A d \in BuiltInDirectories :
                pattern = DirectoryPattern(d) => (matched <=> LiesUnder(filename, d))

C18_Witness ==
    /\ pc = "matched"
    /\ pattern = "**/node_modules/**"
    /\ filename = "src/node_modules/foo.js"
    /\ matched

\* suffixes and directory names a user may configure, built-in ones among them
UserSuffixes == {"js", "key", "log", "your-sensitive-file"}

UserDirectories == {"node_modules", "dist", "vendor", "your-excluded-directory"}

\* C19: an exclude pattern "**/*.<suffix>" or "**/<directory>/**", for any
\* suffix or directory name, matches (and so excludes) every path that ends
\* with that suffix or lies under a directory of that name.
C19_UserPatternsExclude ==
    pc = "matched" =>
        /\ \A x \in UserSuffixes :
                (pattern = SuffixPattern(x) /\ endsWith(filename, "." \o x)) => matched
        /\ \A d \in UserDirectories :
                (pattern = DirectoryPattern(d) /\ LiesUnder(filename, d)) => matched

\* the overall severities on which a policy blocks
BlockingSeverities(policy) ==
    IF ~policy.blocking THEN {}
    ELSE CASE policy.blocking_criteria = "medium_and_high" -> {"medium", "high"}
           [] policy.blocking_criteria = "all_severities" -> Severities
           [] policy.blocking_criteria = "custom" ->
                {sev \in Severities \cap DOMAIN policy.custom_blocking_rules.entries :
                    policy.custom_blocking_rules.entries[sev]}
           [] OTHER -> {"high"}

\* C20: when issue creation fails the run goes on to the gate, and it ends
\* blocked or not by the policy and the overall severity alone, as it does
\* when the issue is created.
C20_PublishFailureNotFatal ==
    /\ report = "failed" => pc \in {"gate", "exited"}
    /\ (report \in {"created", "failed"} /\ pc = "exited") =>
            /\ maxSeverity \in Severities
            /\ exitCode \in {0, 1}
            /\ Blocked <=> maxSeverity \in BlockingSeverities(BranchConfig)
    /\ (report = "failed" /\ pc = "gate") => exitCode = -1

C20_Witness ==
    /\ report = "failed"
    /\ pc = "exited"
    /\ BranchConfig.blocking_criteria = "medium_and_high"
    /\ maxSeverity = "medium"
    /\ Blocked

\* the verdicts the per-file outcomes give, in input order
OutcomeVerdicts == Flatten([k \in 1..Len(files) |-> OwnVerdict(k)])

\* C21: the verdict list a dispatch returns and the overall severity are
\* determined by the file list and the per-file outcomes (content and analysis
\* result of each file) alone: the list is the outcomes' verdicts in input
\* order and the severity the maximum over their issues, in whatever order the
\* calls of a batch completed.
C21_OutcomesDetermineResult ==
    (DispatchReturned /\ ~NoPolicyConfigured) =>
        /\ reviewResults = OutcomeVerdicts
        /\ maxSeverity # Undefined =>
                LET S == IssueSeverities(OutcomeVerdicts)
                IN  /\ S = {} => maxSeverity = "low"
                    /\ S # {} => (maxSeverity \in S
                                    /\ \A sev \in S : ~StrictlyBelow(maxSeverity, sev))

C21_Witness ==
    /\ pc = "exited"
    /\ Len(files) >= 2
    /\ Len(batches) >= 1
    /\ Len(batches[1]) >= 2
    /\ task[1].content = "fetched"
    /\ task[2].content = "patch"
    /\ OwnVerdict(1) # <<>>
    /\ OwnVerdict(2) # <<>>
    /\ OwnVerdict(1) # OwnVerdict(2)
    /\ reviewResults = OwnVerdict(1) \o OwnVerdict(2)
    /\ maxSeverity = "high"

\* strict decoding of the response succeeds: the extracted text is valid JSON
StrictlyDecodes == JsonParses(responseContent)

\* C22: the fallback extraction is used only when strict decoding fails: a
\* response whose strict decoding succeeds is returned exactly as decoded, in
\* particular when it decodes into an object with an issues list.
C22_FallbackOnlyOnStrictFailure ==
    (pc = "interpreted" /\ Length(responseContent) > 0 /\ StrictlyDecodes
        /\ responseContent.body.kind = "object"
        /\ responseContent.body.issues_kind = "array")
        => reviewResult = Decoded(responseContent.body)

\* the interpretation went through the fallback extraction
FallbackTaken ==
    /\ pc = "interpreted"
    /\ Length(responseContent) > 0
    /\ ~(JsonParses(responseContent) /\ ~LoggingThrows(responseContent.body))

\* the number of matches of a field's pattern in the raw text
MatchCount(f) == Len(matchAll(responseContent, f))

LargestCount ==
    CHOOSE n \in {MatchCount(f) : f \in Fields} : \A f \in Fields : n >= MatchCount(f)

FieldDefault(f) ==
    CASE f = "description" -> "Issue found in code"
      [] f = "severity" -> "medium"
      [] f = "line" -> "unknown"
      [] f = "recommendation" -> "Review the code for potential issues"

GenericIssue ==
    [description |-> "Code analysis completed with findings", severity |-> "medium",
     line |-> "various",
     recommendation |-> "Review the OpenAI response for detailed analysis"]

\* C23: on the fallback path the issues built from the matches are as many as
\* the largest of the four match counts, the i-th taking the i-th match of
\* each field or the field's default when the field has fewer than i matches
\* (with no match at all, no issue is built from matches); so a description
\* pair without any severity pair yields an issue of severity medium.
C23_FallbackZipsWithDefaults ==
    FallbackTaken =>
        /\ LargestCount >= 1 =>
                /\ Len(reviewResult.issues) = LargestCount
                /\ \A k \in 1..LargestCount : \A f \in Fields :
                        reviewResult.issues[k][f] =
                            IF k <= MatchCount(f) THEN matchAll(responseContent, f)[k]
                            ELSE FieldDefault(f)
        /\ LargestCount = 0 => reviewResult.issues \in {<<>>, <<GenericIssue>>}
        /\ (MatchCount("description") >= 1 /\ MatchCount("severity") = 0) =>
                \E k \in 1..Len(reviewResult.issues) :
                    reviewResult.issues[k].severity = "medium"

C23_Witness ==
    /\ FallbackTaken
    /\ responseContent.body.kind = "none"
    /\ MatchCount("description") = 2
    /\ MatchCount("severity") = 0
    /\ MatchCount("line") = 0
    /\ Len(reviewResult.issues) = 2
    /\ reviewResult.issues[2] =
            [description |-> "X", severity |-> "medium", line |-> "unknown",
             recommendation |-> "Review the code for potential issues"]

\* C24: on the fallback path, when none of the four field patterns matches,
\* the result has exactly one issue, the generic one of severity medium, if
\* the raw text is longer than 100 characters, and no issue otherwise.
C24_GenericIssueForLongText ==
    (FallbackTaken /\ \A f \in Fields : MatchCount(f) = 0) =>
        IF Length(responseContent) > 100
        THEN reviewResult.issues = <<GenericIssue>>
        ELSE reviewResult.issues = <<>>

C24_Witness ==
    /\ FallbackTaken
    /\ \A f \in Fields : MatchCount(f) = 0
    /\ Length(responseContent) = 101
    /\ reviewResult.issues = <<GenericIssue>>
    /\ reviewResult.issues[1].severity = "medium"

\* the pattern is none of the table's and '**' splits it in more than two parts
ManyParts(pat) == pat \notin KnownPatterns /\ Len(split(pat, "**")) > 2

StartsOf(k) ==
    {<<b, m>> \in (1..Len(batches)) \X (1..MaxFiles + 1) :
        m <= Len(batches[b]) /\ batches[b][m] = k}

\* C26: when every content retrieval and every analysis call settles and the
\* limit is positive, a dispatch that has started eventually returns, and when
\* it has returned every input file has been started exactly once and has
\* settled.
C26_DispatchReturns ==
    /\ (pc = "dispatch") ~> (pc = "handle")
    /\ [](pc = "handle" =>
            \A k \in 1..Len(files) :
                /\ Cardinality(StartsOf(k)) = 1
                /\ task[k].pc = "settled")

C26_Witness ==
    /\ pc = "handle"
    /\ Len(files) = 3
    /\ concurrencyLimit = 2
    /\ BatchSizes = <<2, 1>>
    /\ \A k \in 1..3 : task[k].pc = "settled"
    /\ task[3].call = "fulfilled"

\* C27: a run whose dispatch returned no verdict publishes no report and does
\* not block, whatever the branch policy, blocking on all severities with
\* threshold low included: it ends with status 0.
C27_NoVerdictNoReportNoBlock ==
    (pc \in {"publishing", "gate", "exited"} /\ reviewResults = <<>>) =>
        /\ pc = "exited"
        /\ exitCode = 0
        /\ report = "none"
        /\ maxSeverity = Undefined

C27_Witness ==
    /\ pc = "exited"
    /\ reviewResults = <<>>
    /\ Len(files) > 0
    /\ BranchConfig.blocking
    /\ BranchConfig.blocking_criteria = "all_severities"
    /\ BranchConfig.severity_threshold = "low"
    /\ exitCode = 0
    /\ report = "none"

\* the severity strings of all issues of a verdict list
AllIssueSeverities(results) ==
    UNION {{results[k].issues[n].severity : n \in 1..Len(results[k].issues)} :
              k \in 1..Len(results)}

\* C28: the overall severity is always one of low, medium, high; it is low
\* when every issue carries a severity string outside that set (such as
\* "High"), and a severity other than low is that of some issue.
C28_OverallSeverityRecognised ==
    maxSeverity # Undefined =>
        /\ maxSeverity \in Severities
        /\ AllIssueSeverities(reviewResults) \cap Severities = {} => maxSeverity = "low"
        /\ maxSeverity # "low" => maxSeverity \in AllIssueSeverities(reviewResults)

C28_Witness ==
    /\ maxSeverity = "low"
    /\ Len(reviewResults) = 2
    /\ AllIssueSeverities(reviewResults) = {"High"}

\* the publication step is over: the issue was created, its creation failed,
\* or the threshold check skipped it
PublicationCompleted == report \in {"created", "failed", "skipped"}

\* C29: a run that exits with the failure status has completed its publication
\* step before, and no run reaches the gate or exits while a publication is in
\* flight.
C29_ReportBeforeBlockingExit ==
    /\ Blocked => (pc = "exited" /\ maxSeverity # Undefined /\ PublicationCompleted)
    /\ report = "inflight" => (pc = "publishing" /\ exitCode = -1)
    /\ pc = "gate" => PublicationCompleted

C29_Witness ==
    /\ Blocked
    /\ report = "created"
    /\ maxSeverity = "high"
    /\ BranchConfig.blocking_criteria = "high_only"

\* the files of the run for which non-empty content was available: a patch,
\* or retrieved text
WithContent == {k \in 1..Len(task) : task[k].content \in {"patch", "fetched"}}

\* C30: in every interleaving of a batch's tasks the counters lose no update:
\* the analysis calls counted never exceed the files with non-empty content,
\* the analyses counted never exceed the calls, and once dispatch has returned
\* filesProcessed is exactly the number of files with non-empty content.
C30_CountersLoseNoUpdate ==
    /\ metrics.openaiCalls <= Cardinality(WithContent)
    /\ metrics.filesProcessed <= metrics.openaiCalls
    /\ DispatchReturned => metrics.filesProcessed = Cardinality(WithContent)

C30_Witness ==
    /\ DispatchReturned
    /\ \E b \in 1..Len(batches) :
            /\ Len(batches[b]) = 3
            /\ \E k \in Range(batches[b]) : task[k].content = "unavailable"
            /\ \E k \in Range(batches[b]) : task[k].content = "patch" /\ task[k].call = "rejected"
            /\ \E k \in Range(batches[b]) : task[k].content = "fetched" /\ task[k].call = "fulfilled"
    /\ metrics.filesProcessed = 2
    /\ metrics.openaiCalls = 2

====
